---------------------------- MODULE Spec2Model ----------------------------
(***************************************************************************)
(* Model of chat_message_filter: the pattern configuration                 *)
(* (src/src/config.rs), the document segmentation and reassembly           *)
(* (filter_chat_log in src/src/main.rs) and the batch loop over input      *)
(* paths (main, get_path_for_output, process_path in src/src/main.rs).     *)
(*                                                                         *)
(* Strings are sequences of one-character strings.  The three fixed        *)
(* markers of the program are abbreviated to two characters each; the      *)
(* abbreviations keep what the string algorithms depend on: no marker      *)
(* overlaps itself or contains another, the two opening markers share a    *)
(* prefix, the opening markers contain an upper-case letter and the        *)
(* trailer does not.                                                       *)
(***************************************************************************)
EXTENDS Integers, Sequences, FiniteSets, TLC

VARIABLES
    config,     \* the Config built by from_args / load (or NoConfig)
    built_by,   \* "none" | "from_args" | "load" | "failed"
    haystack,   \* the last fragment handed to Config::matches
    result,     \* the last value returned by matches / filter_chat_log
    document,   \* the input of filter_chat_log
    cli,        \* the parsed command line of a batch run
    fs,         \* file system: path -> content, or Absent
    fs0,        \* the file system when the run started
    index,      \* position of the batch loop in cli.paths
    run,        \* "loop" | "exited" | "summary"
    log         \* per processed path: what process_path did

vars == <<config, built_by, haystack, result, document, cli, fs, fs0, index, run, log>>

---------------------------------------------------------------------------
(* Bounds *)

MaxPieces == 5      \* pieces (markers or characters) a document is built from
MaxFragLen == 3     \* characters of a fragment handed directly to matches
MaxPaths == 2       \* input paths of a batch run
MaxOutputs == 1     \* explicit --outputs entries of a batch run

---------------------------------------------------------------------------
(* Strings *)

ChatMarker == <<"<", "C">>

MessageMarker == <<"<", "M">>

Trailer == <<"/", ">">>

None == <<>>

Some(x) == <<x>>

\* char::to_lowercase on the characters of the model's alphabet
LowerChar(c) ==
    CASE c = "A" -> "a"
      [] c = "C" -> "c"
      [] c = "M" -> "m"
      [] c = "O" -> "o"
      [] OTHER -> c

to_lowercase(s) == [i \in 1..Len(s) |-> LowerChar(s[i])]

\* pat occurs in s at position i
IsMatchAt(s, pat, i) ==
    /\ i >= 1
    /\ i + Len(pat) - 1 <= Len(s)
    /\ \A k \in 1..Len(pat) : s[i + k - 1] = pat[k]

\* position of the first occurrence of pat in s, 0 when there is none
Find(s, pat) ==
    LET hits == {i \in 1..(Len(s) - Len(pat) + 1) : IsMatchAt(s, pat, i)}
    IN IF hits = {} THEN 0 ELSE CHOOSE i \in hits : \A j \in hits : i <= j

\* str::contains
Contains(s, pat) == Find(s, pat) # 0

\* str::starts_with
StartsWith(s, pat) == IsMatchAt(s, pat, 1)

\* str::split_inclusive: the match terminates each piece; a trailing empty
\* piece is omitted, so the empty string yields no piece at all
RECURSIVE split_inclusive(_, _)
split_inclusive(s, pat) ==
    IF s = <<>> THEN <<>>
    ELSE LET i == Find(s, pat)
         IN IF i = 0 THEN <<s>>
            ELSE <<SubSeq(s, 1, i + Len(pat) - 1)>>
                 \o split_inclusive(SubSeq(s, i + Len(pat), Len(s)), pat)

\* str::replace: every non-overlapping occurrence, left to right
RECURSIVE replace(_, _, _)
replace(s, from, to) ==
    LET i == Find(s, from)
    IN IF i = 0 THEN s
       ELSE SubSeq(s, 1, i - 1) \o to
            \o replace(SubSeq(s, i + Len(from), Len(s)), from, to)

\* push_str with the arguments swapped: the text goes in front
push_str_front(out, s) == s \o out

\* String::push_str
push_str(out, s) == out \o s

---------------------------------------------------------------------------
(* Config (src/src/config.rs) *)

NoConfig == [regex |-> FALSE, include |-> None, exclude |-> None,
             match_case |-> FALSE, include_regex |-> None, exclude_regex |-> None]

\* Regex::new on the patterns of the model: literal characters, an optional
\* leading "^" (start of haystack), and "(" which is an unclosed group
RegexNew(pattern) ==
    IF \E i \in 1..Len(pattern) : pattern[i] = "("
    THEN [ok |-> FALSE, re |-> [anchored |-> FALSE, lit |-> <<>>]]
    ELSE IF Len(pattern) > 0 /\ pattern[1] = "^"
         THEN [ok |-> TRUE, re |-> [anchored |-> TRUE, lit |-> Tail(pattern)]]
         ELSE [ok |-> TRUE, re |-> [anchored |-> FALSE, lit |-> pattern]]

\* Regex::is_match: search anywhere unless anchored
is_match(re, hay) ==
    IF re.anchored THEN StartsWith(hay, re.lit) ELSE Contains(hay, re.lit)

compile_regexes(self) ==
    LET inc == IF self.include # None THEN RegexNew(self.include[1])
               ELSE [ok |-> TRUE, re |-> [anchored |-> FALSE, lit |-> <<>>]]
        exc == IF self.exclude # None THEN RegexNew(self.exclude[1])
               ELSE [ok |-> TRUE, re |-> [anchored |-> FALSE, lit |-> <<>>]]
    IN IF ~inc.ok \/ ~exc.ok
       THEN [ok |-> FALSE, config |-> NoConfig]
       ELSE [ok |-> TRUE,
             config |-> [self EXCEPT
                 !.include_regex = IF self.include # None THEN Some(inc.re) ELSE None,
                 !.exclude_regex = IF self.exclude # None THEN Some(exc.re) ELSE None]]

\* the pattern normalisation of from_args: lower-case when not match_case
NormalizePattern(pattern, match_case) ==
    IF ~match_case /\ pattern # None THEN Some(to_lowercase(pattern[1])) ELSE pattern

from_args(regex, include, exclude, match_case) ==
    LET c == [regex |-> regex,
              include |-> NormalizePattern(include, match_case),
              exclude |-> NormalizePattern(exclude, match_case),
              match_case |-> match_case,
              include_regex |-> None,
              exclude_regex |-> None]
    IN IF regex THEN compile_regexes(c) ELSE [ok |-> TRUE, config |-> c]

\* load: the deserialised fields are stored as they are in the file
load(toml) ==
    IF ~toml.readable THEN [ok |-> FALSE, config |-> NoConfig]
    ELSE LET c == [regex |-> toml.regex,
                   include |-> toml.include,
                   exclude |-> toml.exclude,
                   match_case |-> toml.match_case,
                   include_regex |-> None,
                   exclude_regex |-> None]
         IN IF c.regex THEN compile_regexes(c) ELSE [ok |-> TRUE, config |-> c]

\* the include test of matches: TRUE when the fragment is rejected by it
IncludeRejects(self, hay) ==
    IF self.include_regex # None THEN ~is_match(self.include_regex[1], hay)
    ELSE IF self.include # None THEN ~Contains(hay, self.include[1])
    ELSE FALSE

\* the exclude test skipped whenever an include pattern is configured
ExcludeRejects_IncludeWins(self, hay) ==
    IF self.include # None THEN FALSE
    ELSE IF self.exclude_regex # None THEN is_match(self.exclude_regex[1], hay)
    ELSE IF self.exclude # None THEN Contains(hay, self.exclude[1])
    ELSE FALSE

\* the exclude test of matches: TRUE when the fragment is rejected by it
ExcludeRejects(self, hay) ==
    IF self.exclude_regex # None THEN is_match(self.exclude_regex[1], hay)
    ELSE IF self.exclude # None THEN Contains(hay, self.exclude[1])
    ELSE FALSE

\* the fragment as matches compares it
NormalizeHaystack(self, hay) ==
    IF self.match_case THEN hay ELSE to_lowercase(hay)

\* matches without the check that a pattern is configured
matches_NoPatternCheck(self, hay) ==
    LET h == NormalizeHaystack(self, hay)
    IN IF IncludeRejects(self, h) THEN [ok |-> TRUE, val |-> FALSE]
       ELSE IF ExcludeRejects(self, h) THEN [ok |-> TRUE, val |-> FALSE]
       ELSE [ok |-> TRUE, val |-> TRUE]

matches(self, hay) ==
    LET h == NormalizeHaystack(self, hay)
    IN IF self.exclude = None /\ self.include = None
       THEN [ok |-> FALSE, val |-> FALSE]
       ELSE IF IncludeRejects(self, h) THEN [ok |-> TRUE, val |-> FALSE]
       ELSE IF ExcludeRejects(self, h) THEN [ok |-> TRUE, val |-> FALSE]
       ELSE [ok |-> TRUE, val |-> TRUE]

---------------------------------------------------------------------------
(* filter_chat_log (src/src/main.rs) *)

\* the for loop of filter_chat_log: every fragment is handed to matches in
\* turn; a survivor is pushed to the output, an error aborts the loop.
\* calls records the fragments handed to matches and what it returned.
RECURSIVE FilterLoop(_, _, _, _)
FilterLoop(messages, self, output, calls) ==
    IF messages = <<>>
    THEN [kind |-> "ok", output |-> output, count |-> 1, calls |-> calls]
    ELSE LET message == Head(messages)
             r == matches(self, message)
             called == Append(calls, [fragment |-> message, ok |-> r.ok, val |-> r.val])
         IN IF ~r.ok
            THEN [kind |-> "config", output |-> <<>>, count |-> 1, calls |-> called]
            ELSE FilterLoop(Tail(messages), self,
                            IF r.val THEN push_str(output, message) ELSE output,
                            called)

\* the count the structural error reports: parts.len() - 1 in usize.  With
\* no part the subtraction overflows: a build with overflow checks panics,
\* one without wraps to 2^64 - 1, kept here as its representative -1.
StructuralError(nparts, overflow_checks) ==
    IF nparts = 0 /\ overflow_checks
    THEN [kind |-> "panic", output |-> <<>>, count |-> 0, calls |-> <<>>]
    ELSE [kind |-> "structural", output |-> <<>>, count |-> nparts - 1, calls |-> <<>>]

\* the text the message loop runs over: every trailer occurrence removed
ChatMessages(part) == replace(part, Trailer, <<>>)

filter_chat_log(chat_log, self, overflow_checks) ==
    LET parts == split_inclusive(chat_log, ChatMarker)
    IN IF Len(parts) # 2
       THEN StructuralError(Len(parts), overflow_checks)
       ELSE LET looped == FilterLoop(split_inclusive(ChatMessages(parts[2]), MessageMarker),
                                     self, push_str(<<>>, parts[1]), <<>>)
            IN IF looped.kind = "ok"
               THEN [looped EXCEPT !.output = push_str(looped.output, Trailer)]
               ELSE looped

---------------------------------------------------------------------------
(* The batch run (main, get_path_for_output, process_path in src/src/main.rs) *)

\* A path is a directory and a file name, each a sequence of text chunks;
\* a path such as ".." has no file name.  A file system is the set of its
\* directories and the content of every file path, Absent when the file
\* does not exist.
Absent == <<"absent">>

\* str::trim_end_matches("/")
RECURSIVE TrimEndSlashes(_)
TrimEndSlashes(dir) ==
    IF dir # <<>> /\ dir[Len(dir)] = "/"
    THEN TrimEndSlashes(SubSeq(dir, 1, Len(dir) - 1))
    ELSE dir

\* index counts from 1 here and from 0 in the source
get_path_for_output(idx, outputs, path, base_dir) ==
    IF idx <= Len(outputs) THEN outputs[idx]
    ELSE LET dir == IF base_dir # None THEN TrimEndSlashes(base_dir[1]) ELSE <<".">>
             file_name == IF path.name # <<>> THEN path.name
                          ELSE <<"file_name_error", ToString(idx - 1)>>
         IN [dir |-> dir, name |-> <<"filtered_">> \o file_name]

IsFile(fsys, path) == path \in DOMAIN fsys.files /\ fsys.files[path] # Absent

\* the output opened with create and truncate whatever overwrite says
OpenOutput_AlwaysTruncate(fsys, output_path, overwrite) ==
    IF output_path.dir \notin fsys.dirs \/ output_path \notin DOMAIN fsys.files
    THEN [ok |-> FALSE, error |-> "NotFound", fs |-> fsys]
    ELSE [ok |-> TRUE, error |-> "",
          fs |-> [fsys EXCEPT !.files[output_path] = <<>>]]

\* OpenOptions::new().write(true).create_new(!overwrite).create(overwrite)
\*     .truncate(overwrite).open(output_path)
\* create_new fails on an existing file; no option creates a directory
OpenOutput(fsys, output_path, overwrite) ==
    IF output_path.dir \notin fsys.dirs \/ output_path \notin DOMAIN fsys.files
    THEN [ok |-> FALSE, error |-> "NotFound", fs |-> fsys]
    ELSE IF ~overwrite /\ IsFile(fsys, output_path)
    THEN [ok |-> FALSE, error |-> "AlreadyExists", fs |-> fsys]
    ELSE [ok |-> TRUE, error |-> "",
          fs |-> [fsys EXCEPT !.files[output_path] = <<>>]]

\* write_all on the opened file: written is how many characters reach the
\* file before the device fails, all of them when it does not fail
WriteAll(fsys, output_path, text, written) ==
    IF written < Len(text)
    THEN [ok |-> FALSE, fs |-> [fsys EXCEPT !.files[output_path] = SubSeq(text, 1, written)]]
    ELSE [ok |-> TRUE, fs |-> [fsys EXCEPT !.files[output_path] = text]]

\* returns: "Ok" and "Err" are the values handed back to main, "exit" is
\* exit(1) (or a panic) inside process_path
process_path(path, output_path, self, overwrite, fsys, overflow_checks, written) ==
    IF ~IsFile(fsys, path)
    THEN [returns |-> "Err", outcome |-> "read_failed", text |-> <<>>, fs |-> fsys]
    ELSE LET filtered == filter_chat_log(fsys.files[path], self, overflow_checks)
         IN IF filtered.kind # "ok"
            THEN [returns |-> "exit", outcome |-> "filter_failed", text |-> <<>>, fs |-> fsys]
            ELSE LET opened == OpenOutput(fsys, output_path, overwrite)
                 IN IF ~opened.ok
                    THEN [returns |-> "exit", outcome |-> opened.error,
                          text |-> filtered.output, fs |-> fsys]
                    ELSE LET wrote == WriteAll(opened.fs, output_path, filtered.output, written)
                         IN IF ~wrote.ok
                            THEN [returns |-> "exit", outcome |-> "write_failed",
                                  text |-> filtered.output, fs |-> wrote.fs]
                            ELSE [returns |-> "Ok", outcome |-> "written",
                                  text |-> filtered.output, fs |-> wrote.fs]

\* the match in the loop of main: what the run does after process_path
AfterProcess(returns, strict) ==
    IF returns = "exit" \/ (returns = "Err" /\ strict) THEN "exited" ELSE "loop"

---------------------------------------------------------------------------
(* Values the variables hold outside the specification that uses them *)

NoResult == [kind |-> "none"]

NoCli == [paths |-> <<>>, outputs |-> <<>>, out_dir |-> None,
          strict |-> FALSE, overwrite |-> FALSE]

RECURSIVE SeqsUpTo(_, _)
\* all sequences over S of length at most n
SeqsUpTo(S, n) ==
    IF n = 0 THEN {<<>>}
    ELSE LET shorter == SeqsUpTo(S, n - 1)
         IN shorter \cup {Append(t, x) : t \in {u \in shorter : Len(u) = n - 1}, x \in S}

---------------------------------------------------------------------------
(* SpecMatch: a Config is built once, then matches is called on fragments *)

\* pattern strings given on the command line or in the config file
Patterns == {<<>>, <<"A">>, <<"a">>, <<"o">>, <<"^", "A">>, <<"(">>}

OptPatterns == {None} \cup {Some(p) : p \in Patterns}

FragmentChars == {"A", "a", "o"}

Fragments == SeqsUpTo(FragmentChars, MaxFragLen)

ConfigFiles ==
    [readable : {TRUE}, regex : BOOLEAN, include : OptPatterns,
     exclude : OptPatterns, match_case : BOOLEAN]
    \cup {[readable |-> FALSE, regex |-> FALSE, include |-> None,
           exclude |-> None, match_case |-> FALSE]}

InitMatch ==
    /\ config = NoConfig
    /\ built_by = "none"
    /\ haystack = <<>>
    /\ result = NoResult
    /\ document = <<>>
    /\ cli = NoCli
    /\ fs = <<>>
    /\ fs0 = <<>>
    /\ index = 0
    /\ run = "loop"
    /\ log = <<>>

\* main, lines 84-90: the Config comes from the command-line flags
FromArgs ==
    /\ built_by = "none"
    /\ \E regex \in BOOLEAN, include \in OptPatterns,
          exclude \in OptPatterns, match_case \in BOOLEAN :
          LET r == from_args(regex, include, exclude, match_case)
          IN /\ config' = r.config
             /\ built_by' = IF r.ok THEN "from_args" ELSE "failed"
    /\ UNCHANGED <<haystack, result, document, cli, fs, fs0, index, run, log>>

\* main, lines 75-83: the Config comes from a config file
Load ==
    /\ built_by = "none"
    /\ \E toml \in ConfigFiles :
          LET r == load(toml)
          IN /\ config' = r.config
             /\ built_by' = IF r.ok THEN "load" ELSE "failed"
    /\ UNCHANGED <<haystack, result, document, cli, fs, fs0, index, run, log>>

\* one call of Config::matches on a fragment
Matches ==
    /\ built_by \in {"from_args", "load"}
    /\ \E h \in Fragments :
          LET r == matches(config, h)
          IN /\ haystack' = h
             /\ result' = [kind |-> "matches", ok |-> r.ok, val |-> r.val]
    /\ UNCHANGED <<config, built_by, document, cli, fs, fs0, index, run, log>>

NextMatch == FromArgs \/ Load \/ Matches

SpecMatch == InitMatch /\ [][NextMatch]_vars

\* the fragment as the contract of matches compares it
Normalized == IF config.match_case THEN haystack ELSE to_lowercase(haystack)

\* a normalized fragment satisfies a configured pattern: regex search in
\* regex mode, substring containment in literal mode
Satisfies(pattern, h) ==
    IF config.regex THEN is_match(RegexNew(pattern).re, h) ELSE Contains(h, pattern)

MatchCalled == built_by \in {"from_args", "load"} /\ result.kind = "matches"

\* C1: with at least one of include/exclude set, matches returns Ok(true)
\* exactly when (include is absent or the normalized fragment satisfies it)
\* and (exclude is absent or the normalized fragment does not satisfy it).
C1_MatchesContract ==
    (MatchCalled /\ (config.include # None \/ config.exclude # None)) =>
        /\ result.ok
        /\ result.val =
              (/\ config.include = None \/ Satisfies(config.include[1], Normalized)
               /\ config.exclude = None \/ ~Satisfies(config.exclude[1], Normalized))

\* a fragment that satisfies both include and exclude has been rejected
C1_Witness ==
    /\ MatchCalled
    /\ config.include # None /\ config.exclude # None
    /\ Satisfies(config.include[1], Normalized)
    /\ Satisfies(config.exclude[1], Normalized)
    /\ result.ok /\ ~result.val

\* C6: in literal mode with match_case = false, whichever constructor built
\* the Config, a fragment passes exactly when its lower-cased text contains
\* the lower-cased include pattern and not the lower-cased exclude pattern.
C6_CaseInsensitive ==
    (MatchCalled /\ ~config.regex /\ ~config.match_case
       /\ (config.include # None \/ config.exclude # None)) =>
        /\ result.ok
        /\ result.val =
              (/\ config.include = None
                    \/ Contains(to_lowercase(haystack), to_lowercase(config.include[1]))
               /\ config.exclude = None
                    \/ ~Contains(to_lowercase(haystack), to_lowercase(config.exclude[1])))

---------------------------------------------------------------------------
(* SpecFilter: filter_chat_log applied to a document under a Config *)

Pieces == {ChatMarker, MessageMarker, Trailer, <<"o">>, <<"A">>}

RECURSIVE Flatten(_)
Flatten(ss) == IF ss = <<>> THEN <<>> ELSE Head(ss) \o Flatten(Tail(ss))

Documents == {Flatten(ps) : ps \in SeqsUpTo(Pieces, MaxPieces)}

\* the command-line flags the filtered documents are checked under:
\* no pattern, the identity filter, a literal include, a case-insensitive
\* literal exclude, an include regex anchored on the message marker
FilterArgs ==
    { [regex |-> FALSE, include |-> None, exclude |-> None, match_case |-> FALSE],
      [regex |-> FALSE, include |-> Some(<<>>), exclude |-> None, match_case |-> FALSE],
      [regex |-> FALSE, include |-> Some(<<"o">>), exclude |-> None, match_case |-> TRUE],
      [regex |-> FALSE, include |-> None, exclude |-> Some(<<"A">>), match_case |-> FALSE],
      [regex |-> TRUE, include |-> Some(<<"^", "<", "M", "o">>), exclude |-> None,
       match_case |-> TRUE] }

InitFilter ==
    /\ \E a \in FilterArgs :
          config = from_args(a.regex, a.include, a.exclude, a.match_case).config
    /\ built_by = "from_args"
    /\ haystack = <<>>
    /\ result = NoResult
    /\ document \in Documents
    /\ cli = NoCli
    /\ fs = <<>>
    /\ fs0 = <<>>
    /\ index = 0
    /\ run = "loop"
    /\ log = <<>>

\* one call of filter_chat_log; the build profile decides what an
\* arithmetic overflow does
FilterChatLog ==
    /\ result.kind = "none"
    /\ \E overflow_checks \in BOOLEAN :
          result' = filter_chat_log(document, config, overflow_checks)
    /\ UNCHANGED <<config, built_by, haystack, document, cli, fs, fs0, index, run, log>>

NextFilter == FilterChatLog

SpecFilter == InitFilter /\ [][NextFilter]_vars

Filtered == result.kind # "none"

\* number of occurrences of pat in s
Occurrences(s, pat) == Cardinality({i \in 1..Len(s) : IsMatchAt(s, pat, i)})

\* end of the first occurrence of the chat-container marker
PreambleEnd == Find(document, ChatMarker) + Len(ChatMarker) - 1

Preamble == SubSeq(document, 1, PreambleEnd)

AfterPreamble == SubSeq(document, PreambleEnd + 1, Len(document))

RECURSIVE ConcatFragments(_, _)
\* the fragments of calls, those matches returned true for only when kept_only
ConcatFragments(calls, kept_only) ==
    IF calls = <<>> THEN <<>>
    ELSE (IF kept_only /\ ~(Head(calls).ok /\ Head(calls).val) THEN <<>>
          ELSE Head(calls).fragment)
         \o ConcatFragments(Tail(calls), kept_only)

NoPatterns == config.include = None /\ config.exclude = None

IdentityFilter ==
    /\ ~config.regex
    /\ config.include = Some(<<>>)
    /\ config.exclude = None

\* s with suffix removed from its end when it is there
StripSuffix(s, suffix) ==
    IF IsMatchAt(s, suffix, Len(s) - Len(suffix) + 1)
    THEN SubSeq(s, 1, Len(s) - Len(suffix))
    ELSE s

\* C2: filter_chat_log returns a structural error exactly when the number
\* of chat-container markers in the document differs from 1, and the error
\* reports that number.
C2_StructuralError ==
    Filtered =>
        /\ (result.kind = "structural") <=> (Occurrences(document, ChatMarker) # 1)
        /\ result.kind = "structural" => result.count = Occurrences(document, ChatMarker)

\* C3: an Ok result for a document with exactly one chat-container marker
\* is the preamble, then the fragments matches returned true for, in the
\* order they lie in the document and unchanged, then the trailer.
C3_OutputShape ==
    (result.kind = "ok" /\ Occurrences(document, ChatMarker) = 1) =>
        /\ result.output = Preamble \o ConcatFragments(result.calls, TRUE) \o Trailer
        /\ ConcatFragments(result.calls, FALSE) = ChatMessages(AfterPreamble)

\* two fragments survived around a dropped one
C3_Witness ==
    /\ result.kind = "ok"
    /\ Occurrences(document, ChatMarker) = 1
    /\ Len(result.calls) = 3
    /\ result.calls[1].val /\ ~result.calls[2].val /\ result.calls[3].val

\* C4: every fragment handed to matches, other than a leading prefix,
\* begins with the message-opening marker and runs to just before its next
\* occurrence.
C4_FragmentsOpenWithMarker ==
    Filtered =>
        \A k \in 1..Len(result.calls) :
            \/ k = 1 /\ ~Contains(result.calls[k].fragment, MessageMarker)
            \/ /\ StartsWith(result.calls[k].fragment, MessageMarker)
               /\ Occurrences(result.calls[k].fragment, MessageMarker) = 1

\* C5 as claimed: without patterns, filter_chat_log never returns Ok with
\* an output document for a document with exactly one chat-container marker.
C5_NeverOk ==
    (Filtered /\ NoPatterns /\ Occurrences(document, ChatMarker) = 1) =>
        result.kind # "ok"

\* C5 amended: without patterns, every document with exactly one
\* chat-container marker and a non-empty chat text (the text after the
\* marker with the trailer occurrences removed) ends in the configuration
\* error, raised by the first fragment and with no output.
C5_ConfigErrorOnFirstFragment ==
    (Filtered /\ NoPatterns /\ Occurrences(document, ChatMarker) = 1
       /\ ChatMessages(AfterPreamble) # <<>>) =>
        /\ result.kind = "config"
        /\ result.output = <<>>
        /\ Len(result.calls) = 1
        /\ ~result.calls[1].ok

C5_Witness ==
    /\ NoPatterns
    /\ Occurrences(document, ChatMarker) = 1
    /\ Len(split_inclusive(ChatMessages(AfterPreamble), MessageMarker)) >= 2
    /\ result.kind = "config"

\* C7: under the identity filter a document with exactly one
\* chat-container marker comes back with the trailer removed from its end,
\* if it is there, and appended again; nothing else changes.
C7_IdentityFilter ==
    (Filtered /\ IdentityFilter /\ Occurrences(document, ChatMarker) = 1) =>
        /\ result.kind = "ok"
        /\ result.output = StripSuffix(document, Trailer) \o Trailer

---------------------------------------------------------------------------
(* SpecBatch: main runs over the input paths of the command line *)

Str(word) == <<word>>

GoodDoc == ChatMarker \o Str("A") \o MessageMarker \o Str("o") \o Trailer

NoChatDoc == Str("A")

EmptyDoc == <<>>

OldContent == Str("o")

InputPaths ==
    { [dir |-> <<".">>, name |-> <<"a">>],
      [dir |-> <<"..">>, name |-> <<>>] }

ExplicitOutputs ==
    { [dir |-> <<"new">>, name |-> <<"o">>],
      [dir |-> <<".">>, name |-> <<"a">>] }

OutDirs == {None, Some(<<"new", "/">>)}

ExistingDirs == {<<".">>, <<"..">>}

\* every file path a run can touch
FilePaths ==
    {p \in InputPaths : p.name # <<>>} \cup ExplicitOutputs
    \cup {get_path_for_output(MaxPaths + 1, <<>>, p, d) :
              p \in {q \in InputPaths : q.name # <<>>}, d \in OutDirs}

InputContents == {Absent, GoodDoc, NoChatDoc, EmptyDoc}

\* the files before the run: inputs may hold a document, a default output
\* in an existing directory may be left over from an earlier run
InitialFiles ==
    {f \in [FilePaths -> InputContents \cup {OldContent}] :
        \A p \in FilePaths :
            /\ p.dir \notin ExistingDirs => f[p] = Absent
            /\ p \in InputPaths => f[p] \in InputContents
            /\ p \notin InputPaths => f[p] \in {Absent, OldContent}}

BatchArgs ==
    { [regex |-> FALSE, include |-> Some(<<"o">>), exclude |-> None, match_case |-> TRUE],
      [regex |-> FALSE, include |-> None, exclude |-> None, match_case |-> FALSE] }

InitBatch ==
    /\ \E a \in BatchArgs :
          config = from_args(a.regex, a.include, a.exclude, a.match_case).config
    /\ built_by = "from_args"
    /\ haystack = <<>>
    /\ result = NoResult
    /\ document = <<>>
    /\ cli \in [paths : SeqsUpTo(InputPaths, MaxPaths),
                outputs : SeqsUpTo(ExplicitOutputs, MaxOutputs),
                out_dir : OutDirs,
                strict : BOOLEAN,
                overwrite : BOOLEAN]
    /\ \E f \in InitialFiles : fs = [dirs |-> ExistingDirs, files |-> f]
    /\ fs0 = fs
    /\ index = 1
    /\ run = "start"
    /\ log = <<>>

\* main, lines 109-112: no path to process ends the run
Start ==
    /\ run = "start"
    /\ run' = IF cli.paths = <<>> THEN "exited" ELSE "loop"
    /\ UNCHANGED <<config, built_by, haystack, result, document, cli, fs, fs0, index, log>>

\* main, lines 114-137: one iteration of the loop over cli.paths
ProcessPath ==
    /\ run = "loop"
    /\ index <= Len(cli.paths)
    /\ \E overflow_checks \in BOOLEAN, written \in 0..(Len(GoodDoc)) :
          LET log_path == cli.paths[index]
              output_path == get_path_for_output(index, cli.outputs, log_path, cli.out_dir)
              r == process_path(log_path, output_path, config, cli.overwrite, fs,
                                overflow_checks, written)
          IN /\ fs' = r.fs
             /\ log' = Append(log, [path |-> log_path, output |-> output_path,
                                    outcome |-> r.outcome, text |-> r.text])
             /\ run' = AfterProcess(r.returns, cli.strict)
             /\ index' = IF AfterProcess(r.returns, cli.strict) = "loop"
                         THEN index + 1 ELSE index
    /\ UNCHANGED <<config, built_by, haystack, result, document, cli, fs0>>

\* main, lines 139-143: the final summary
Summary ==
    /\ run = "loop"
    /\ index > Len(cli.paths)
    /\ run' = "summary"
    /\ UNCHANGED <<config, built_by, haystack, result, document, cli, fs, fs0, index, log>>

NextBatch == Start \/ ProcessPath \/ Summary

SpecBatch == InitBatch /\ [][NextBatch]_vars

\* C8: without --strict a failing document never halts the run.
C8_NonStrictNeverHalts ==
    (run = "exited" /\ cli.paths # <<>>) => cli.strict

\* C9: an output path in a directory that does not exist yet does not make
\* processing fail: the directory is created and the document written.
C9_MissingDirsCreated ==
    \A k \in 1..Len(log) :
        (log[k].outcome \notin {"read_failed", "filter_failed", "write_failed"}
           /\ log[k].output.dir \notin fs0.dirs) =>
            /\ log[k].outcome = "written"
            /\ log[k].output.dir \in fs.dirs
            /\ fs.files[log[k].output] = log[k].text

=============================================================================
